---- MODULE Spec2Model ----
(***************************************************************************)
(* Model of uniquer (src/src/main.rs): the name normalizer, the hidden     *)
(* entry filter, the directory walk, the duplicate grouper and the         *)
(* consolidator, over an explicit filesystem.                              *)
(*                                                                         *)
(* A file name or a path is a sequence of one-character strings; "/" is    *)
(* the path separator.  The filesystem is a function from the paths that   *)
(* exist to their entries.                                                 *)
(***************************************************************************)
EXTENDS Integers, Sequences, FiniteSets, TLC

VARIABLES
    fs,             \* the filesystem: path -> [kind, created, modified, ino]
    fs0,            \* the filesystem as it was when main started
    pc,             \* position of main: start, loop, deleting, done, panicked
    duplicate_map,  \* HashMap<String, Vec<FileData>> of main.rs:66
    remaining,      \* keys the `for (_k, v) in hashmap` iterator still holds
    cur,            \* key of the group the loop body is working on
    idx,            \* index into v of the next remove_file of the loop body
    visited,        \* keys in the order the loop took them
    ops,            \* filesystem calls made by delete_duplicates, in order
    nf_hist         \* normalize_file applied repeatedly: <<x, n(x), n(n(x))>>

vars == <<fs, fs0, pc, duplicate_map, remaining, cur, idx, visited, ops, nf_hist>>

(***************************************************************************)
(* Bounds.                                                                 *)
(***************************************************************************)
\* entries below the root in an initial filesystem
MaxEntries == 4
\* timestamps are 1..MaxTime
MaxTime == 2
\* length of the file names normalize_file is applied to in NormSpec
MaxLen == 7
\* applications of normalize_file in one NormSpec behaviour
MaxCalls == 2

(***************************************************************************)
(* Character classes of the regular expression (main.rs:26).               *)
(***************************************************************************)
\* \s
SpaceChars == {" "}

\* \d
DigitChars == {"0", "1", "2", "3", "4", "5", "6", "7", "8", "9"}

\* \w : letters, digits and the underscore
WordChars == DigitChars \cup {"a", "b", "d", "r", "t", "x", "_"}

SetMin(S) == CHOOSE m \in S : \A n \in S : m <= n

AllIn(s, lo, hi, class) == \A i \in lo..hi : s[i] \in class

Rest(s, i) == SubSeq(s, i + 1, Len(s))

\* `(\.\w+)?$` : the whole of t is empty or a dot followed by word characters
ExtMatches(t) ==
    \/ t = <<>>
    \/ /\ Len(t) >= 2
       /\ t[1] = "."
       /\ AllIn(t, 2, Len(t), WordChars)

\* the first position from i on whose character is not in class (Len(t) + 1
\* when there is none): where the greedy `\s*` and `\d+` stop
SkipClass(t, i, class) ==
    SetMin({j \in i..(Len(t) + 1) : j = Len(t) + 1 \/ t[j] \notin class})

OpenParen(t) == SkipClass(t, 1, SpaceChars)

CloseParen(t) == SkipClass(t, OpenParen(t) + 1, DigitChars)

\* t matches `\s*\(\d+\)(\.\w+)?$` from its first character on
SuffixMatches(t) ==
    /\ OpenParen(t) <= Len(t)
    /\ t[OpenParen(t)] = "("
    /\ CloseParen(t) >= OpenParen(t) + 2
    /\ CloseParen(t) <= Len(t)
    /\ t[CloseParen(t)] = ")"
    /\ ExtMatches(Rest(t, CloseParen(t)))

\* the capture group `ext` of a matching suffix ("" when the group is absent)
SuffixExt(t) == Rest(t, CloseParen(t))

\* the lengths the capture group `base` can have: `^(?P<base>.+?)` is at least
\* one character, of any kind (no name here holds a line feed), and the rest
\* of the name is the suffix
BaseLengths(filename) ==
    {i \in 1..Len(filename) : SuffixMatches(Rest(filename, i))}

\* main.rs:26-35  the regular expression applied to filename: `.+?` is lazy, so
\* the match takes the shortest base; without a match the name is returned
regex_captures(filename) ==
    IF BaseLengths(filename) # {}
    THEN LET i == SetMin(BaseLengths(filename))
         IN  SubSeq(filename, 1, i) \o SuffixExt(Rest(filename, i))
    ELSE filename

(***************************************************************************)
(* Paths (std::path) and the filesystem calls the program makes.  A path   *)
(* is the sequence of its components; as a string the components are       *)
(* joined by "/".                                                          *)
(***************************************************************************)
Sep == "/"

\* Path::file_name : the last component
FileName(p) == p[Len(p)]

\* Path::parent
Parent(p) == SubSeq(p, 1, Len(p) - 1)

JoinPath(dir, name) == Append(dir, name)

RECURSIVE ToStr(_)
\* Path::to_str (main.rs:118)
ToStr(p) ==
    IF Len(p) = 1 THEN p[1] ELSE ToStr(Parent(p)) \o <<Sep>> \o FileName(p)

RECURSIVE FromStr(_)
\* the path a string names (main.rs:119  &renamed_file as a path)
FromStr(str) ==
    LET seps == {i \in 1..Len(str) : str[i] = Sep}
    IN  IF seps = {} THEN <<str>>
        ELSE LET i == CHOOSE m \in seps : \A n \in seps : m >= n
             IN  Append(FromStr(SubSeq(str, 1, i - 1)), Rest(str, i))

\* q is d or lies below d
Within(q, d) == Len(q) >= Len(d) /\ SubSeq(q, 1, Len(d)) = d

(***************************************************************************)
(* The directory trees main is run on.                                     *)
(***************************************************************************)
\* the directory given on the command line (main.rs:13)
NameR == <<"r">>

Root == <<NameR>>

NameA == <<"a">>
NameA1 == <<"a", " ", "(", "1", ")">>
NameA12 == <<"a", " ", "(", "1", ")", "(", "2", ")">>
NameP1 == <<"(", "1", ")", ".", "a">>
NameHidden == <<".", "a">>

NameSeq == <<NameA, NameA1, NameA12, NameP1, NameHidden>>
DirNameSeq == <<NameA, NameA1, NameHidden>>
ChildNameSeq == <<NameA1, NameA12, NameP1>>

Entry(path, kind) == [path |-> path, kind |-> kind]

\* the entries a tree is made of: anything in the root, files in its directories
Candidates ==
    [i \in 1..Len(NameSeq) |-> Entry(JoinPath(Root, NameSeq[i]), "file")]
    \o [i \in 1..Len(DirNameSeq) |-> Entry(JoinPath(Root, DirNameSeq[i]), "dir")]
    \o [i \in 1..(Len(DirNameSeq) * Len(ChildNameSeq)) |->
          Entry(JoinPath(JoinPath(Root, DirNameSeq[((i - 1) \div Len(ChildNameSeq)) + 1]),
                         ChildNameSeq[((i - 1) % Len(ChildNameSeq)) + 1]),
                "file")]

\* the strings main passes to normalize_file on these trees: the file names of
\* the walked entries (main.rs:72) and the survivors' paths (main.rs:118)
KnownNames ==
    {NameR} \cup {ToStr(Candidates[i].path) : i \in 1..Len(Candidates)}
            \cup {FileName(Candidates[i].path) : i \in 1..Len(Candidates)}

\* regex_captures of the known names, computed once
KnownCaptures == [s \in KnownNames |-> regex_captures(s)]

\* main.rs:24  normalize_file
normalize_file(filename) ==
    IF filename \in KnownNames THEN KnownCaptures[filename]
    ELSE regex_captures(filename)

Children(f, d) == {q \in DOMAIN f : Parent(q) = d}

NoIno == <<>>

InoAt(f, p) == IF p \in DOMAIN f THEN f[p].ino ELSE NoIno

Inos(f) == {f[p].ino : p \in DOMAIN f}

\* std::fs::remove_file succeeds on an existing entry that is not a directory
RemoveOk(f, p) == p \in DOMAIN f /\ f[p].kind = "file"

RemoveFs(f, p) == [q \in DOMAIN f \ {p} |-> f[q]]

\* std::fs::rename (rename(2)): the source exists; a destination with an empty
\* last component ("dir/") names the parent directory itself and is refused;
\* an existing destination is replaced when both are files or when both are
\* directories and the destination is empty
RenameOk(f, from, to) ==
    /\ from \in DOMAIN f
    /\ \/ to = from
       \/ /\ FileName(to) # <<>>
          /\ Parent(to) \in DOMAIN f
          /\ f[Parent(to)].kind = "dir"
          /\ \/ to \notin DOMAIN f
             \/ f[from].kind = "file" /\ f[to].kind = "file"
             \/ f[from].kind = "dir" /\ f[to].kind = "dir" /\ Children(f, to) = {}

Moved(q, from, to) == to \o SubSeq(q, Len(from) + 1, Len(q))

\* the entry at `from`, with everything below it, now lives at `to`
RenameFs(f, from, to) ==
    IF to = from THEN f
    ELSE LET stay == {q \in DOMAIN f : q # to /\ ~Within(q, from)}
             move == {q \in DOMAIN f : Within(q, from)}
             src(n) == IF n \in stay THEN n
                       ELSE CHOOSE q \in move : Moved(q, from, to) = n
         IN  [n \in stay \cup {Moved(q, from, to) : q \in move} |-> f[src(n)]]

(***************************************************************************)
(* main.rs:39  is_hidden, and the walk of main.rs:68-69.                   *)
(***************************************************************************)
\* main.rs:39  the entry's file name starts with "."
is_hidden(p) == Len(FileName(p)) >= 1 /\ FileName(p)[1] = "."

RECURSIVE PermSeqs(_)
\* the sequences that list every element of S once
PermSeqs(S) ==
    IF S = {} THEN {<<>>}
    ELSE UNION {{<<x>> \o s : s \in PermSeqs(S \ {x})} : x \in S}

Dirs(f) == {p \in DOMAIN f : f[p].kind = "dir"}

RECURSIVE ReadDirOrdersOf(_, _)
ReadDirOrdersOf(f, dirs) ==
    IF dirs = {} THEN {[d \in {} |-> <<>>]}
    ELSE LET d == CHOOSE x \in dirs : TRUE
         IN  {rd @@ (d :> s) : rd \in ReadDirOrdersOf(f, dirs \ {d}),
                               s \in PermSeqs(Children(f, d))}

\* the orders in which read_dir can list each directory's children
ReadDirOrders(f) == ReadDirOrdersOf(f, Dirs(f))

RECURSIVE WalkEntryFilter(_, _, _)
RECURSIVE WalkChildrenFilter(_, _, _)
\* the walk with `.filter` in the place of `.filter_entry`: a hidden entry is
\* not yielded, but a hidden directory is still descended into
WalkEntryFilter(f, rd, p) ==
    (IF is_hidden(p) THEN <<>> ELSE <<p>>)
    \o (IF f[p].kind = "dir" THEN WalkChildrenFilter(f, rd, rd[p]) ELSE <<>>)

WalkChildrenFilter(f, rd, list) ==
    IF list = <<>> THEN <<>>
    ELSE WalkEntryFilter(f, rd, Head(list)) \o WalkChildrenFilter(f, rd, Tail(list))

RECURSIVE WalkEntry(_, _, _)
RECURSIVE WalkChildren(_, _, _)
\* main.rs:68-69  WalkDir::new(directory).into_iter().filter_entry(|e| !is_hidden(e)):
\* depth first, a directory before its contents; a filtered entry is not
\* yielded and, when a directory, not descended into
WalkEntry(f, rd, p) ==
    IF is_hidden(p) THEN <<>>
    ELSE <<p>> \o (IF f[p].kind = "dir" THEN WalkChildren(f, rd, rd[p]) ELSE <<>>)

WalkChildren(f, rd, list) ==
    IF list = <<>> THEN <<>>
    ELSE WalkEntry(f, rd, Head(list)) \o WalkChildren(f, rd, Tail(list))

(***************************************************************************)
(* main.rs:47  compare_file_data, and main.rs:65  group_duplicates.        *)
(***************************************************************************)
Cmp(a, b) == IF a < b THEN "Less" ELSE IF a > b THEN "Greater" ELSE "Equal"

\* Ordering::then
Then(o1, o2) == IF o1 = "Equal" THEN o2 ELSE o1

\* the comparison without its tie-break on the modification time
compare_created_only(fd1, fd2) == Cmp(fd1.created, fd2.created)

\* main.rs:47
compare_file_data(fd1, fd2) ==
    Then(Cmp(fd1.created, fd2.created), Cmp(fd1.modified, fd2.modified))

\* x goes after every element that is not greater than it (the sort is stable)
SortedInsert(sorted, x) ==
    LET before == {i \in 0..Len(sorted) :
                      \A j \in (i + 1)..Len(sorted) :
                          compare_file_data(sorted[j], x) = "Greater"}
        i == SetMin(before)
    IN  SubSeq(sorted, 1, i) \o <<x>> \o SubSeq(sorted, i + 1, Len(sorted))

RECURSIVE SortFrom(_, _)
SortFrom(sorted, v) ==
    IF v = <<>> THEN sorted ELSE SortFrom(SortedInsert(sorted, Head(v)), Tail(v))

\* main.rs:104  values.sort_by(compare_file_data)
sort_by(v) == SortFrom(<<>>, v)

\* main.rs:79-82, 88-91
FileDataOf(f, p) ==
    [filepath |-> p, created |-> f[p].created, modified |-> f[p].modified]

EmptyMap == [k \in {} |-> <<>>]

\* the loop body with the push lost: a key seen again gets a fresh vector
InsertEntryOverwrite(f, map, p) ==
    LET basename == normalize_file(FileName(p))
    IN  [k \in DOMAIN map \cup {basename} |->
            IF k = basename THEN <<FileDataOf(f, p)>> ELSE map[k]]

\* main.rs:72-95  the body of the loop over the walked entries
InsertEntry(f, map, p) ==
    LET basename == normalize_file(FileName(p))
    IN  IF basename \in DOMAIN map
        THEN [map EXCEPT ![basename] = Append(@, FileDataOf(f, p))]
        ELSE map @@ (basename :> <<FileDataOf(f, p)>>)

RECURSIVE InsertEntries(_, _, _)
InsertEntries(f, map, entries) ==
    IF entries = <<>> THEN map
    ELSE InsertEntries(f, InsertEntry(f, map, Head(entries)), Tail(entries))

\* retain with `v.len() > 0`: the groups of one entry are kept
RetainNonEmpty(map) == [k \in {k \in DOMAIN map : Len(map[k]) > 0} |-> map[k]]

\* main.rs:99  duplicate_map.retain(|_, v| v.len() > 1)
Retain(map) == [k \in {k \in DOMAIN map : Len(map[k]) > 1} |-> map[k]]

\* main.rs:102-105
SortValues(map) == [k \in DOMAIN map |-> sort_by(map[k])]

\* main.rs:65  group_duplicates, for one order of the walk
group_duplicates(f, entries) == SortValues(Retain(InsertEntries(f, EmptyMap, entries)))

(***************************************************************************)
(* The initial filesystems.                                                 *)
(***************************************************************************)
RECURSIVE SubsetsFrom(_, _)
\* the sets of at most n of the candidates i, i+1, ...
SubsetsFrom(i, n) ==
    IF n = 0 \/ i > Len(Candidates) THEN {{}}
    ELSE SubsetsFrom(i + 1, n)
         \cup {T \cup {Candidates[i]} : T \in SubsetsFrom(i + 1, n - 1)}

\* a tree: one entry per path, and every entry's parent is a directory of it
IsTree(T) ==
    /\ \A e1, e2 \in T : e1.path = e2.path => e1 = e2
    /\ \A e \in T :
          \/ Parent(e.path) = Root
          \/ Entry(Parent(e.path), "dir") \in T

Trees == {T \in SubsetsFrom(1, MaxEntries) : IsTree(T)}

Stamps == (1..MaxTime) \X (1..MaxTime)

RootEntry == [kind |-> "dir", created |-> 1, modified |-> 1, ino |-> Root]

\* every file is told apart by its ino: the path it had when main started
MkFs(T, st) ==
    [p \in {Root} \cup {e.path : e \in T} |->
        IF p = Root THEN RootEntry
        ELSE LET e == CHOOSE x \in T : x.path = p
             IN  [kind |-> e.kind, created |-> st[e][1], modified |-> st[e][2],
                  ino |-> p]]

NoKey == <<>>

Init ==
    /\ \E T \in Trees : \E st \in [T -> Stamps] : fs = MkFs(T, st)
    /\ fs0 = fs
    /\ pc = "start"
    /\ duplicate_map = EmptyMap
    /\ remaining = {}
    /\ cur = NoKey
    /\ idx = 0
    /\ visited = <<>>
    /\ ops = <<>>
    /\ nf_hist = <<>>

(***************************************************************************)
(* main.rs:124  main: group_duplicates, then delete_duplicates.            *)
(***************************************************************************)
\* main.rs:129  let path_iter = group_duplicates(&args.directory_path)
GroupDuplicates ==
    /\ pc = "start"
    /\ \E rd \in ReadDirOrders(fs) :
          duplicate_map' = group_duplicates(fs, WalkEntry(fs, rd, Root))
    /\ remaining' = DOMAIN duplicate_map'
    /\ pc' = "loop"
    /\ UNCHANGED <<fs, fs0, cur, idx, visited, ops, nf_hist>>

\* main.rs:110  for (_k, v) in hashmap: the iterator yields the next group, in
\* an order the HashMap decides
NextGroup ==
    /\ pc = "loop"
    /\ \E k \in remaining :
          /\ cur' = k
          /\ remaining' = remaining \ {k}
          /\ visited' = Append(visited, k)
    /\ idx' = 1
    /\ pc' = "body"
    /\ UNCHANGED <<fs, fs0, duplicate_map, ops, nf_hist>>

OpRecord(op, path, to, f, ok) ==
    [op |-> op, path |-> path, to |-> to, ino |-> InoAt(f, path),
     victim |-> IF to # path THEN InoAt(f, to) ELSE NoIno, ok |-> ok]

\* remove_file with its error dropped in the place of unwrap(): the loop goes
\* on after a failed removal
RemoveFileStepIgnoringError ==
    /\ pc = "body"
    /\ idx < Len(duplicate_map[cur])
    /\ LET path == duplicate_map[cur][idx].filepath
       IN  /\ ops' = Append(ops, OpRecord("remove_file", path, path, fs, RemoveOk(fs, path)))
           /\ fs' = IF RemoveOk(fs, path) THEN RemoveFs(fs, path) ELSE fs
           /\ idx' = idx + 1
    /\ UNCHANGED <<fs0, pc, duplicate_map, remaining, cur, visited, nf_hist>>

\* main.rs:112-113  std::fs::remove_file(&f.filepath).unwrap()
RemoveFileStep ==
    /\ pc = "body"
    /\ idx < Len(duplicate_map[cur])
    /\ LET path == duplicate_map[cur][idx].filepath
       IN  /\ ops' = Append(ops, OpRecord("remove_file", path, path, fs, RemoveOk(fs, path)))
           /\ IF RemoveOk(fs, path)
              THEN /\ fs' = RemoveFs(fs, path)
                   /\ idx' = idx + 1
                   /\ pc' = pc
              ELSE /\ pc' = "panicked"
                   /\ UNCHANGED <<fs, idx>>
    /\ UNCHANGED <<fs0, duplicate_map, remaining, cur, visited, nf_hist>>

\* main.rs:118  the name the survivor is renamed to
renamed_file(v) == normalize_file(ToStr(v[Len(v)].filepath))

\* main.rs:117-119  std::fs::rename(&most_updated_file.filepath, &renamed_file).unwrap()
RenameStep ==
    /\ pc = "body"
    /\ idx = Len(duplicate_map[cur])
    /\ LET v == duplicate_map[cur]
           from == v[Len(v)].filepath
           to == FromStr(renamed_file(v))
       IN  /\ ops' = Append(ops, OpRecord("rename", from, to, fs, RenameOk(fs, from, to)))
           /\ IF RenameOk(fs, from, to)
              THEN /\ fs' = RenameFs(fs, from, to)
                   /\ pc' = "loop"
              ELSE /\ pc' = "panicked"
                   /\ UNCHANGED fs
    /\ UNCHANGED <<fs0, duplicate_map, remaining, cur, idx, visited, nf_hist>>

\* main.rs:122, 131  the loop has run out of groups and main returns
Finish ==
    /\ pc = "loop"
    /\ remaining = {}
    /\ pc' = "done"
    /\ UNCHANGED <<fs, fs0, duplicate_map, remaining, cur, idx, visited, ops, nf_hist>>

Next == GroupDuplicates \/ NextGroup \/ RemoveFileStep \/ RenameStep \/ Finish

Spec == Init /\ [][Next]_vars

(***************************************************************************)
(* delete_duplicates as a function of the order the HashMap yields the     *)
(* groups in.                                                              *)
(***************************************************************************)
RECURSIVE RunGroup(_, _, _)
\* main.rs:112-119  the loop body from the i-th element of v on
RunGroup(f, v, i) ==
    IF i < Len(v)
    THEN IF RemoveOk(f, v[i].filepath)
         THEN RunGroup(RemoveFs(f, v[i].filepath), v, i + 1)
         ELSE [fs |-> f, result |-> "panicked"]
    ELSE IF RenameOk(f, v[Len(v)].filepath, FromStr(renamed_file(v)))
         THEN [fs |-> RenameFs(f, v[Len(v)].filepath, FromStr(renamed_file(v))), result |-> "done"]
         ELSE [fs |-> f, result |-> "panicked"]

RECURSIVE RunGroups(_, _, _)
\* main.rs:109  delete_duplicates, the groups taken in `order`
RunGroups(f, map, order) ==
    IF order = <<>> THEN [fs |-> f, result |-> "done"]
    ELSE LET r == RunGroup(f, map[Head(order)], 1)
         IN  IF r.result = "panicked" THEN r
             ELSE RunGroups(r.fs, map, Tail(order))

(***************************************************************************)
(* normalize_file on its own: every name of at most MaxLen characters.     *)
(***************************************************************************)
NormAlphabet == {"a", "1", "(", ")", ".", " "}

FileNames == UNION {[1..n -> NormAlphabet] : n \in 0..MaxLen}

NormInit ==
    /\ nf_hist \in {<<x>> : x \in FileNames}
    /\ fs = EmptyMap
    /\ fs0 = EmptyMap
    /\ pc = "normalize"
    /\ duplicate_map = EmptyMap
    /\ remaining = {}
    /\ cur = NoKey
    /\ idx = 0
    /\ visited = <<>>
    /\ ops = <<>>

\* one more call of normalize_file, on the result of the last
NormalizeCall ==
    /\ pc = "normalize"
    /\ Len(nf_hist) <= MaxCalls
    /\ nf_hist' = Append(nf_hist, normalize_file(nf_hist[Len(nf_hist)]))
    /\ UNCHANGED <<fs, fs0, pc, duplicate_map, remaining, cur, idx, visited, ops>>

NormNext == NormalizeCall

NormSpec == NormInit /\ [][NormNext]_vars

(***************************************************************************)
(* Properties.                                                             *)
(***************************************************************************)
Terminated == pc \in {"done", "panicked"}

Grouped == pc \notin {"start", "normalize"}

\* the step-by-step run and delete_duplicates as a function agree
RunAgrees ==
    Terminated => RunGroups(fs0, duplicate_map, visited) = [fs |-> fs, result |-> pc]

\* every entry but the root has a directory as its parent
TreeShaped ==
    \A p \in DOMAIN fs :
        p = Root \/ (Parent(p) \in DOMAIN fs /\ fs[Parent(p)].kind = "dir")

\* the entries of f that are not hidden and lie below no hidden directory
Visible(f) ==
    {p \in DOMAIN f : \A i \in 1..Len(p) : ~is_hidden(SubSeq(p, 1, i))}

KeyOf(p) == normalize_file(FileName(p))

\* the visible entries of f whose normalized name is k
Sharing(f, k) == {p \in Visible(f) : KeyOf(p) = k}

Members(v) == {v[i].filepath : i \in 1..Len(v)}

AllMembers == UNION {Members(duplicate_map[k]) : k \in DOMAIN duplicate_map}

Survivor(k) == duplicate_map[k][Len(duplicate_map[k])].filepath

\* <<created, modified>> of a is at most that of b, lexicographically
StampLeq(a, b) ==
    \/ a.created < b.created
    \/ a.created = b.created /\ a.modified <= b.modified

\* C1: once delete_duplicates has completed, of every group exactly the newest
\* member is still on disk, under the group's canonical name, and the other
\* members are gone
C1_OneSurvivorPerGroup ==
    pc = "done" =>
        \A k \in DOMAIN duplicate_map :
            /\ \E p \in DOMAIN fs : fs[p].ino = Survivor(k) /\ FileName(p) = k
            /\ \A m \in Members(duplicate_map[k]) \ {Survivor(k)} : m \notin Inos(fs)

\* C2: every rename goes to the survivor's directory joined with the
\* normalized file name of the survivor
C2_RenameTarget ==
    \A i \in DOMAIN ops :
        ops[i].op = "rename" =>
            ops[i].to = JoinPath(Parent(ops[i].path), normalize_file(FileName(ops[i].path)))

\* C3: whatever order the groups are taken in, delete_duplicates ends with the
\* filesystem and the result this run ended with
C3_OrderIndependent ==
    Terminated =>
        \A order \in PermSeqs(DOMAIN duplicate_map) :
            RunGroups(fs0, duplicate_map, order) = [fs |-> fs, result |-> pc]

\* C4: a key is in the map iff at least two walked entries normalize to it, its
\* group holds exactly those entries, and so every group has at least 2 records
C4_GroupsAreTheSharedKeys ==
    Grouped =>
        /\ DOMAIN duplicate_map = {KeyOf(p) : p \in {q \in Visible(fs0) : Cardinality(Sharing(fs0, KeyOf(q))) >= 2}}
        /\ \A k \in DOMAIN duplicate_map :
              /\ Members(duplicate_map[k]) = Sharing(fs0, k)
              /\ Len(duplicate_map[k]) = Cardinality(Sharing(fs0, k))
              /\ Len(duplicate_map[k]) >= 2

C4_Witness ==
    /\ Grouped
    /\ \E k \in DOMAIN duplicate_map : Len(duplicate_map[k]) >= 3
    /\ \E p \in Visible(fs0) : p # Root /\ KeyOf(p) \notin DOMAIN duplicate_map

\* C5: in every group adjacent records are in ascending <<created, modified>>
\* order, so the first is the oldest and the last, the survivor, is maximal
C5_GroupsSorted ==
    Grouped =>
        \A k \in DOMAIN duplicate_map :
            LET v == duplicate_map[k]
            IN  /\ \A i \in 1..(Len(v) - 1) : StampLeq(v[i], v[i + 1])
                /\ \A i \in 1..Len(v) : StampLeq(v[1], v[i]) /\ StampLeq(v[i], v[Len(v)])

C5_Witness ==
    /\ Grouped
    /\ \E k \in DOMAIN duplicate_map :
          LET v == duplicate_map[k]
          IN  /\ Len(v) >= 3
              /\ v[1].created = v[2].created /\ v[1].modified < v[2].modified
              /\ v[2].created < v[3].created /\ v[2].modified > v[3].modified

\* C6: normalize_file applied to its own result changes nothing
C6_Idempotent == Len(nf_hist) >= 3 => nf_hist[3] = nf_hist[2]

\* every entry of f below the root is hidden or lies below a hidden directory
OnlyHidden(f) == Visible(f) = {Root}

\* C7: no group holds an entry that is hidden or lies below a hidden directory,
\* and a tree with nothing but hidden entries gives no group and runs to the
\* end without an error or a filesystem call
C7_HiddenPruned ==
    /\ Grouped => AllMembers \subseteq Visible(fs0)
    /\ (Grouped /\ OnlyHidden(fs0)) => (duplicate_map = EmptyMap /\ pc # "panicked" /\ ops = <<>>)

C7_Witness ==
    /\ pc = "done"
    /\ DOMAIN duplicate_map # {}
    /\ \E p \in DOMAIN fs0 :
          /\ Len(p) = 3
          /\ is_hidden(Parent(p))
          /\ KeyOf(p) \in DOMAIN duplicate_map
          /\ p \in DOMAIN fs

\* C8: a failed remove_file or rename is the last filesystem call of the run,
\* which has then panicked, and what was removed before it stays removed
C8_AbortOnFirstFailure ==
    /\ \A i \in DOMAIN ops : ~ops[i].ok => (i = Len(ops) /\ pc = "panicked")
    /\ pc = "panicked" => (ops # <<>> /\ ~ops[Len(ops)].ok)
    /\ \A i \in DOMAIN ops :
          (ops[i].op = "remove_file" /\ ops[i].ok) => ops[i].ino \notin Inos(fs)

C8_Witness ==
    /\ pc = "panicked"
    /\ ops[Len(ops)].op = "remove_file"
    /\ \E i \in DOMAIN ops : ops[i].op = "remove_file" /\ ops[i].ok
    /\ \E i \in DOMAIN ops : ops[i].op = "rename" /\ ops[i].ok

\* the entries that share their normalized name with another walked entry
SharedEntries(f) == {p \in Visible(f) : Cardinality(Sharing(f, KeyOf(p))) >= 2}

\* C9: when no two walked entries share a normalized name there is no group and
\* the run makes no filesystem call; and the entry a remove_file or a rename
\* is applied to is always one that shares its normalized name with another
C9_UngroupedUntouched ==
    /\ (Grouped /\ SharedEntries(fs0) = {}) =>
          (duplicate_map = EmptyMap /\ ops = <<>> /\ fs = fs0)
    /\ \A i \in DOMAIN ops :
          /\ ops[i].path \in SharedEntries(fs0)
          /\ ops[i].ok => ops[i].ino \in SharedEntries(fs0)

C9_Witness ==
    /\ pc = "done"
    /\ \E i \in DOMAIN ops : ops[i].op = "rename" /\ ops[i].ok /\ ops[i].to # ops[i].path
    /\ \E p \in Visible(fs0) \ SharedEntries(fs0) :
          p # Root /\ p \in DOMAIN fs /\ fs[p] = fs0[p]

\* C10: a rename that is carried out goes to the survivor's own path or to a
\* path at which nothing exists, so it replaces no entry
C10_RenameNeverOverwrites ==
    \A i \in DOMAIN ops :
        (ops[i].op = "rename" /\ ops[i].ok) =>
            (ops[i].to = ops[i].path \/ ops[i].victim = NoIno)

====
